---- MODULE Spec2Model ----
(***************************************************************************)
(* Model of the expense-tracking frontend: the Verification page           *)
(* (pages/Verification.tsx), the placeholder Upload page (pages/Upload.tsx),*)
(* the Expenses / Income lists (pages/Expenses.tsx) and the Dashboard.     *)
(*                                                                         *)
(* Money is held in cents.  Confidence is held in percent, as the          *)
(* Verification page holds it.                                             *)
(***************************************************************************)
EXTENDS Integers, Sequences, FiniteSets, TLC

VARIABLES
    currentItem,    \* Verification: useState(0), index into pendingItems (0-based)
    formData,       \* Verification: useState(current.extractedData)
    consoleLog,     \* what handleApprove / handleReject wrote with console.log
    uploadedFiles,  \* Upload: useState([...]) processing queue
    expenses,       \* Expenses: useState([...])
    entry,          \* queue entry handed to the confidence rendering
    view,           \* what the confidence rendering produced for entry
    file,           \* FileService: the File handed to validateFile / inferDocumentType
    validation,     \* FileService: what validateFile returned for file
    inferred,       \* FileService: what inferDocumentType returned for file.name
    uploadingFiles, \* useFileUpload: useState<UploadingFile[]>([])
    uploads,        \* useFileUpload: the uploadFile calls awaiting FileService.uploadDocument
    returned,       \* useFileUpload: how each uploadFile promise settled, in order
    serviceCalls,   \* FileService.uploadDocument calls made, in order
    serverDocs,     \* Documents the upload endpoint has answered with, per upload
    documents,      \* useDocuments: useState<Document[]>([])
    loading,        \* useDocuments: useState(true)
    error,          \* useDocuments: useState<string | null>(null)
    total,          \* useDocuments: useState(0)
    currentFilter,  \* useDocuments: useState('all')
    mounted,        \* useDocuments: whether the initial-load effect has run
    requests,       \* useDocuments: the loadDocuments calls awaiting FileService.getDocuments
    deletes,        \* useDocuments: the deleteDocument calls awaiting FileService.deleteDocument
    capturedFilter, \* Upload.handleFiles in progress: currentFilter seen by its refresh
    lastOp,         \* the hook operation or continuation that ran last
    localStorage,   \* AuthContext: the accessToken / refreshToken items of localStorage
    sessionStorage, \* AuthContext: the accessToken / refreshToken items of sessionStorage
    user,           \* AuthContext: useState<User | null>(null)
    accessToken,    \* AuthContext: useState<string | null>(null)
    authRequest,    \* AuthContext: the innermost axios request in flight and its answer
    nesting,        \* AuthContext: response-interceptor handlers awaiting refreshToken()
    selectedDocumentType, \* Upload page: useState<'receipt' | 'payslip'>('receipt')
    snackbar,       \* Upload page: useState({ open: false, message: '', severity: 'info' })
    pageUpload,     \* Upload page: the upload the running handleFiles call awaits
    registerFormData, \* Register: useState({ firstName: '', ..., confirmPassword: '' })
    acceptTerms,    \* Register: useState(false)
    registerError,  \* Register: useState('') error
    success,        \* Register: useState('')
    isLoading,      \* Register: useState(false)
    fieldErrors,    \* Register: useState<Record<string, string>>({})
    registerCalls   \* the register() calls awaiting their answer

vars == <<currentItem, formData, consoleLog, uploadedFiles, expenses, entry, view,
          file, validation, inferred,
          uploadingFiles, uploads, returned, serviceCalls, serverDocs,
          documents, loading, error, total, currentFilter, mounted, requests,
          deletes, capturedFilter, lastOp,
          localStorage, sessionStorage, user, accessToken, authRequest, nesting,
          selectedDocumentType, snackbar, pageUpload,
          registerFormData, acceptTerms, registerError, success, isLoading, fieldErrors,
          registerCalls>>

vVerification == <<currentItem, formData, consoleLog>>
vLists == <<uploadedFiles, expenses>>
vRender == <<entry, view>>
vFileService == <<file, validation, inferred>>
vUpload == <<uploadingFiles, uploads, returned, serviceCalls, serverDocs>>
vDocuments == <<documents, loading, error, total, currentFilter, mounted, requests,
                deletes, capturedFilter>>
vAuth == <<localStorage, sessionStorage, user, accessToken, authRequest, nesting>>
vUploadPage == <<selectedDocumentType, snackbar, pageUpload>>
vRegister == <<registerFormData, acceptTerms, registerError, success, isLoading, fieldErrors,
               registerCalls>>
vForms == <<vAuth, vUploadPage, vRegister>>
vHooks == <<vFileService, vUpload, vDocuments, lastOp, vForms>>

(***************************************************************************)
(* Bounds                                                                  *)
(***************************************************************************)
MaxLog == 2

(***************************************************************************)
(* parseFloat on the text of a number input.  Texts are sequences of       *)
(* characters; the result is the value of the longest leading run of       *)
(* digits (in cents), or NaN when the text does not start with a digit.    *)
(***************************************************************************)
NaN == -1

DigitValue(c) ==
    CASE c = "0" -> 0 [] c = "1" -> 1 [] c = "2" -> 2 [] c = "3" -> 3
      [] c = "4" -> 4 [] c = "5" -> 5 [] c = "6" -> 6 [] c = "7" -> 7
      [] c = "8" -> 8 [] c = "9" -> 9 [] OTHER -> NaN

IsDigit(c) == DigitValue(c) # NaN

RECURSIVE DigitPrefixLen(_)
DigitPrefixLen(s) ==
    IF s = <<>> \/ ~IsDigit(Head(s)) THEN 0 ELSE 1 + DigitPrefixLen(Tail(s))

RECURSIVE DigitsValue(_, _)
DigitsValue(s, n) ==
    IF n = 0 THEN 0 ELSE DigitsValue(s, n - 1) * 10 + DigitValue(s[n])

parseFloat(s) ==
    IF DigitPrefixLen(s) = 0 THEN NaN
    ELSE 100 * DigitsValue(s, DigitPrefixLen(s))

\* Texts typed into a number field, and into a text field.
NumberInputs == { <<>>, <<"5">>, <<"5", "x">> }
TextInputs == { "Corrected Name" }

(***************************************************************************)
(* Verification page fixture.  The receipts' line items and the payslip's   *)
(* deductions are left out: no handler modelled here reads or writes them. *)
(***************************************************************************)
pendingItems ==
    << [ id |-> 1, filename |-> "grocery_receipt_20250806.jpg", type |-> "receipt",
         confidence |-> 87,
         extractedData |-> [ merchant |-> "Whole Foods Market", amount |-> 6745,
                             date |-> "2025-08-06", category |-> "Groceries" ] ],
       [ id |-> 2, filename |-> "gas_station_receipt.jpg", type |-> "receipt",
         confidence |-> 75,
         extractedData |-> [ merchant |-> "Shell Gas Station", amount |-> 4520,
                             date |-> "2025-08-05", category |-> "Transportation" ] ],
       [ id |-> 3, filename |-> "payslip_july_2025.pdf", type |-> "payslip",
         confidence |-> 92,
         extractedData |-> [ employer |-> "Tech Corp Inc.", grossPay |-> 350000,
                             netPay |-> 265000, payPeriod |-> "July 1-31, 2025" ] ] >>

\* pendingItems[currentItem]; the page indexes from 0.
current == pendingItems[currentItem + 1]

(***************************************************************************)
(* Upload page fixture (processing queue), Expenses / Income fixtures,     *)
(* Dashboard fixture                                                       *)
(***************************************************************************)
NoValue == -2

uploadedFilesInit ==
    << [ id |-> 1, name |-> "grocery_receipt_20250806.jpg", type |-> "receipt",
         status |-> "completed", confidence |-> 95, extractedAmount |-> 6745 ],
       [ id |-> 2, name |-> "gas_station_receipt.jpg", type |-> "receipt",
         status |-> "processing", confidence |-> NoValue, extractedAmount |-> NoValue ],
       [ id |-> 3, name |-> "payslip_july_2025.pdf", type |-> "payslip",
         status |-> "needs_review", confidence |-> 75, extractedAmount |-> 350000 ] >>

expensesInit ==
    << [ id |-> 1, merchant |-> "Whole Foods Market", amount |-> 6745,
         category |-> "Groceries", verified |-> TRUE, hasReceipt |-> TRUE ],
       [ id |-> 2, merchant |-> "Shell Gas Station", amount |-> 4520,
         category |-> "Transportation", verified |-> FALSE, hasReceipt |-> TRUE ],
       [ id |-> 3, merchant |-> "Local Restaurant", amount |-> 2890,
         category |-> "Dining", verified |-> TRUE, hasReceipt |-> TRUE ],
       [ id |-> 4, merchant |-> "Manual Entry", amount |-> 1200,
         category |-> "Transportation", verified |-> TRUE, hasReceipt |-> FALSE ] >>

incomeData ==
    << [ id |-> 1, source |-> "Tech Corp Inc.", grossAmount |-> 350000,
         netAmount |-> 265000, verified |-> TRUE ],
       [ id |-> 2, source |-> "Freelance Project", grossAmount |-> 120000,
         netAmount |-> 120000, verified |-> TRUE ] >>

monthlyStats ==
    [ totalExpenses |-> 124750, totalIncome |-> 350000,
      pendingVerifications |-> 3, documentsProcessed |-> 15 ]

\* Upload page: chip color of a file's status
getStatusColor(status) ==
    CASE status = "completed" -> "success"
      [] status = "processing" -> "warning"
      [] status = "needs_review" -> "error"
      [] OTHER -> "default"

\* Upload page: the "<n> document(s) need your review" banner
needsReviewCount ==
    Cardinality({ i \in DOMAIN uploadedFiles : uploadedFiles[i].status = "needs_review" })

(***************************************************************************)
(* Confidence rendering of the Verification page, as functions of the      *)
(* entry's confidence (percent)                                            *)
(***************************************************************************)
\* color of the "<n>% confidence" chip
ConfidenceChipColor(confidence) ==
    IF confidence > 85 THEN "success"
    ELSE IF confidence > 70 THEN "warning" ELSE "error"

\* whether the "Low confidence score" warning Alert is rendered
LowConfidenceAlert_Inclusive(confidence) == confidence <= 80

LowConfidenceAlert(confidence) == confidence < 80

Confidences == 0..100

(***************************************************************************)
(* FileService: validateFile and inferDocumentType.  A File is its name    *)
(* (a sequence of characters), its size in bytes and its MIME type.        *)
(***************************************************************************)
MAX_FILE_SIZE == 10 * 1024 * 1024

ALLOWED_TYPES == { "image/jpeg", "image/jpg", "image/png", "application/pdf" }

\* the absent `error` of { valid: true }
Undefined == "<undefined>"

validateFile_SizeInclusive(f) ==
    IF f.size >= MAX_FILE_SIZE
    THEN [ valid |-> FALSE, error |-> "File size exceeds 10MB limit" ]
    ELSE IF f.type \notin ALLOWED_TYPES
    THEN [ valid |-> FALSE,
           error |-> "File type not supported. Please use JPG, PNG, or PDF files." ]
    ELSE [ valid |-> TRUE, error |-> Undefined ]

validateFile(f) ==
    IF f.size > MAX_FILE_SIZE
    THEN [ valid |-> FALSE, error |-> "File size exceeds 10MB limit" ]
    ELSE IF f.type \notin ALLOWED_TYPES
    THEN [ valid |-> FALSE,
           error |-> "File type not supported. Please use JPG, PNG, or PDF files." ]
    ELSE [ valid |-> TRUE, error |-> Undefined ]

UpperCase == <<"A", "B", "C", "D", "E", "F", "G", "H", "I", "J", "K", "L", "M",
               "N", "O", "P", "Q", "R", "S", "T", "U", "V", "W", "X", "Y", "Z">>

LowerCase == <<"a", "b", "c", "d", "e", "f", "g", "h", "i", "j", "k", "l", "m",
               "n", "o", "p", "q", "r", "s", "t", "u", "v", "w", "x", "y", "z">>

\* String.prototype.toLowerCase, character by character
toLowerCase(s) ==
    [ i \in 1..Len(s) |->
        IF \E j \in DOMAIN UpperCase : UpperCase[j] = s[i]
        THEN LowerCase[CHOOSE j \in DOMAIN UpperCase : UpperCase[j] = s[i]]
        ELSE s[i] ]

\* String.prototype.includes: scan s from the left for an occurrence of w
RECURSIVE includes(_, _)
includes(s, w) ==
    IF Len(w) > Len(s) THEN FALSE
    ELSE IF SubSeq(s, 1, Len(w)) = w THEN TRUE
    ELSE includes(Tail(s), w)

inferDocumentType_NoLowerCase(filename) ==
    LET name == filename
    IN  IF \/ includes(name, <<"p", "a", "y", "s", "l", "i", "p">>)
           \/ includes(name, <<"s", "a", "l", "a", "r", "y">>)
           \/ includes(name, <<"w", "a", "g", "e">>)
        THEN "payslip"
        ELSE "receipt"

inferDocumentType(filename) ==
    LET name == toLowerCase(filename)
    IN  IF \/ includes(name, <<"p", "a", "y", "s", "l", "i", "p">>)
           \/ includes(name, <<"s", "a", "l", "a", "r", "y">>)
           \/ includes(name, <<"w", "a", "g", "e">>)
        THEN "payslip"
        ELSE "receipt"

\* Files handed to the two functions: names are a prefix, a stem and an
\* extension; sizes lie on both sides of the limit; types inside and outside
\* the allowed list.
NamePrefixes == { <<>>, <<"M", "y", "_">>, <<"w">> }

NameStems ==
    { <<"p", "a", "y", "s", "l", "i", "p">>,
      <<"P", "A", "Y", "S", "L", "I", "P">>,
      <<"P", "a", "y", "S", "l", "i", "p">>,
      <<"s", "a", "l", "a", "r", "y">>,
      <<"S", "a", "l", "a", "r", "y">>,
      <<"S", "A", "L", "A", "R", "Y">>,
      <<"w", "a", "g", "e">>,
      <<"W", "A", "G", "E">>,
      <<"W", "a", "g", "e", "s">>,
      <<"r", "e", "c", "e", "i", "p", "t">>,
      <<"p", "a", "y", "_", "s", "l", "i", "p">>,
      <<"s", "a", "l", "a", "r">>,
      <<"w", "a", "g">>,
      <<"a", "g", "e">>,
      <<"i", "n", "v", "o", "i", "c", "e">>,
      <<"p", "a", "y", "s", "a", "l", "a", "r", "y", "w", "a", "g", "e">> }

NameExtensions == { <<>>, <<".", "p", "d", "f">> }

FileNames == { p \o w \o e : p \in NamePrefixes, w \in NameStems, e \in NameExtensions }

FileSizes == { 0, 1024, MAX_FILE_SIZE - 1, MAX_FILE_SIZE, MAX_FILE_SIZE + 1, 2 * MAX_FILE_SIZE }

FileTypes == { "image/jpeg", "image/jpg", "image/png", "application/pdf",
               "image/gif", "text/plain", "IMAGE/PNG", "" }

FileInputs == [ name : FileNames, size : FileSizes, type : FileTypes ]

NotValidated == [ valid |-> FALSE, error |-> "<not validated>" ]

NotInferred == "<not inferred>"

\* the File of the FileService tests: new File(['content'], 'test.jpg', { type: 'image/jpeg' })
testFile == [ name |-> <<"t", "e", "s", "t", ".", "j", "p", "g">>, size |-> 7,
              type |-> "image/jpeg" ]

IdleFileService ==
    /\ file = testFile
    /\ validation = NotValidated
    /\ inferred = NotInferred

(***************************************************************************)
(* Initial state of the two hooks                                          *)
(***************************************************************************)
\* the null of useState<string | null>(null)
Null == "<null>"

\* the answer of a getDocuments promise that has none (yet)
NoAnswer == [ documents |-> <<>>, total |-> 0 ]

NoOp == [ name |-> "none", id |-> 0, type |-> "", ok |-> TRUE, msg |-> "",
          thrown |-> "", response |-> NoAnswer ]

\* capturedFilter while no handleFiles call is running
NotCaptured == "<none>"

InitUpload ==
    /\ uploadingFiles = <<>>
    /\ uploads = <<>>
    /\ returned = <<>>
    /\ serviceCalls = <<>>
    /\ serverDocs = <<>>

InitDocuments ==
    /\ documents = <<>>
    /\ loading = TRUE
    /\ error = Null
    /\ total = 0
    /\ currentFilter = "all"
    /\ mounted = FALSE
    /\ requests = <<>>
    /\ deletes = <<>>
    /\ capturedFilter = NotCaptured

(***************************************************************************)
(* Initial state of the auth context, the API-backed Upload page and the   *)
(* Register page                                                           *)
(***************************************************************************)
NoTokens == [ accessToken |-> Null, refreshToken |-> Null ]

\* no axios request in flight; status 0 stands for "not answered yet"
NoRequest == [ kind |-> "none", status |-> 0 ]

InitAuth ==
    /\ localStorage = NoTokens
    /\ sessionStorage = NoTokens
    /\ user = Null
    /\ accessToken = Null
    /\ authRequest = NoRequest
    /\ nesting = 0

NoSnackbar == [ open |-> FALSE, name |-> <<>>, message |-> "", severity |-> "info" ]

InitUploadPage ==
    /\ selectedDocumentType = "receipt"
    /\ snackbar = NoSnackbar
    /\ pageUpload = 0

EmptyForm == [ firstName |-> <<>>, lastName |-> <<>>, email |-> <<>>, password |-> <<>>,
               confirmPassword |-> <<>> ]

\* {} of Record<string, string>: an absent key and '' are both held as ""
NoFieldErrors == [ firstName |-> "", lastName |-> "", email |-> "", password |-> "",
                   confirmPassword |-> "" ]

InitRegister ==
    /\ registerFormData = EmptyForm
    /\ acceptTerms = FALSE
    /\ registerError = ""
    /\ success = ""
    /\ isLoading = FALSE
    /\ fieldErrors = NoFieldErrors
    /\ registerCalls = <<>>

InitForms ==
    /\ InitAuth
    /\ InitUploadPage
    /\ InitRegister

(***************************************************************************)
(* Initial state                                                           *)
(***************************************************************************)
InitVerification ==
    /\ currentItem = 0
    /\ formData = pendingItems[1].extractedData
    /\ consoleLog = <<>>

InitLists ==
    /\ uploadedFiles = uploadedFilesInit
    /\ expenses = expensesInit

NotRendered == [ rendered |-> FALSE, chip |-> "none", alert |-> FALSE ]

Init ==
    /\ InitVerification
    /\ InitLists
    /\ entry = [ confidence |-> pendingItems[1].confidence ]
    /\ view = NotRendered
    /\ IdleFileService
    /\ InitUpload
    /\ InitDocuments
    /\ lastOp = NoOp
    /\ InitForms

(***************************************************************************)
(* Verification page handlers                                              *)
(***************************************************************************)
NumItems == Len(pendingItems)

\* handleNext: both setters are computed from the currentItem of this render.
handleNext ==
    /\ currentItem' = (currentItem + 1) % NumItems
    /\ formData' = pendingItems[((currentItem + 1) % NumItems) + 1].extractedData

handlePrevious ==
    /\ currentItem' = (currentItem - 1 + NumItems) % NumItems
    /\ formData' = pendingItems[((currentItem - 1 + NumItems) % NumItems) + 1].extractedData

\* The Next button is disabled on the last item, Previous on the first.
ClickNext ==
    /\ currentItem # NumItems - 1
    /\ handleNext
    /\ UNCHANGED <<consoleLog, vLists, vRender, vHooks>>

ClickPrevious ==
    /\ currentItem # 0
    /\ handlePrevious
    /\ UNCHANGED <<consoleLog, vLists, vRender, vHooks>>

handleApprove_MarksVerified ==
    /\ Len(consoleLog) < MaxLog
    /\ consoleLog' = Append(consoleLog,
                            [ kind |-> "Approved", id |-> pendingItems[currentItem + 1].id,
                              data |-> formData ])
    /\ handleNext
    /\ uploadedFiles' = [ i \in DOMAIN uploadedFiles |->
                            IF uploadedFiles[i].id = pendingItems[currentItem + 1].id
                            THEN [uploadedFiles[i] EXCEPT !.status = "verified"]
                            ELSE uploadedFiles[i] ]
    /\ UNCHANGED <<expenses, vRender, vHooks>>

\* console.log('Approved:', formData); handleNext().  The entry also notes
\* the id of the item on screen, which the page does not log.
handleApprove ==
    /\ Len(consoleLog) < MaxLog
    /\ consoleLog' = Append(consoleLog,
                            [ kind |-> "Approved", id |-> current.id, data |-> formData ])
    /\ handleNext
    /\ UNCHANGED <<vLists, vRender, vHooks>>

\* console.log('Rejected:', current.id); handleNext().
handleReject ==
    /\ Len(consoleLog) < MaxLog
    /\ consoleLog' = Append(consoleLog,
                            [ kind |-> "Rejected", id |-> current.id, data |-> <<>> ])
    /\ handleNext
    /\ UNCHANGED <<vLists, vRender, vHooks>>

\* Field editors.  The receipt form is rendered for type 'receipt', the
\* payslip form otherwise.  The date, category, grossPay and payPeriod
\* editors have the shape of the merchant and amount editors.
ChangeMerchant(text) ==
    /\ current.type = "receipt"
    /\ formData' = [formData EXCEPT !.merchant = text]
    /\ UNCHANGED <<currentItem, consoleLog, vLists, vRender, vHooks>>

ChangeAmount(text) ==
    /\ current.type = "receipt"
    /\ formData' = [formData EXCEPT !.amount = parseFloat(text)]
    /\ UNCHANGED <<currentItem, consoleLog, vLists, vRender, vHooks>>

ChangeEmployer(text) ==
    /\ current.type # "receipt"
    /\ formData' = [formData EXCEPT !.employer = text]
    /\ UNCHANGED <<currentItem, consoleLog, vLists, vRender, vHooks>>

ChangeNetPay(text) ==
    /\ current.type # "receipt"
    /\ formData' = [formData EXCEPT !.netPay = parseFloat(text)]
    /\ UNCHANGED <<currentItem, consoleLog, vLists, vRender, vHooks>>

Next ==
    \/ ClickNext
    \/ ClickPrevious
    \/ handleApprove
    \/ handleReject
    \/ \E text \in TextInputs : ChangeMerchant(text)
    \/ \E text \in NumberInputs : ChangeAmount(text)
    \/ \E text \in TextInputs : ChangeEmployer(text)
    \/ \E text \in NumberInputs : ChangeNetPay(text)

Spec == Init /\ [][Next]_vars

(***************************************************************************)
(* Rendering one queue entry: the chip and the low-confidence Alert are    *)
(* computed from the entry's confidence; the entry is only read.           *)
(***************************************************************************)
InitRender ==
    /\ InitVerification
    /\ InitLists
    /\ entry \in [ confidence : Confidences ]
    /\ view = NotRendered
    /\ IdleFileService
    /\ InitUpload
    /\ InitDocuments
    /\ lastOp = NoOp
    /\ InitForms

RenderEntry ==
    /\ ~view.rendered
    /\ view' = [ rendered |-> TRUE,
                 chip |-> ConfidenceChipColor(entry.confidence),
                 alert |-> LowConfidenceAlert(entry.confidence) ]
    /\ UNCHANGED <<entry, vVerification, vLists, vHooks>>

NextRender == RenderEntry

SpecRender == InitRender /\ [][NextRender]_vars

(***************************************************************************)
(* FileService applied to one File                                         *)
(***************************************************************************)
IdlePages ==
    /\ InitVerification
    /\ InitLists
    /\ entry = [ confidence |-> pendingItems[1].confidence ]
    /\ view = NotRendered

InitFileService ==
    /\ IdlePages
    /\ file \in FileInputs
    /\ validation = NotValidated
    /\ inferred = NotInferred
    /\ InitUpload
    /\ InitDocuments
    /\ lastOp = NoOp
    /\ InitForms

CallValidateFile ==
    /\ validation = NotValidated
    /\ validation' = validateFile(file)
    /\ UNCHANGED <<vForms, file, inferred, vVerification, vLists, vRender, vUpload, vDocuments, lastOp>>

CallInferDocumentType ==
    /\ inferred = NotInferred
    /\ inferred' = inferDocumentType(file.name)
    /\ UNCHANGED <<vForms, file, validation, vVerification, vLists, vRender, vUpload, vDocuments, lastOp>>

NextFileService ==
    \/ CallValidateFile
    \/ CallInferDocumentType

SpecFileService == InitFileService /\ [][NextFileService]_vars

(***************************************************************************)
(* useFileUpload.  An upload id stands for the `${Date.now()}-${random}`   *)
(* string: ids are numbered in the order uploadFile creates them and are    *)
(* never reused.  uploads[u] is the FileService.uploadDocument promise of   *)
(* upload u; returned lists how the uploadFile promises settled.            *)
(***************************************************************************)
MaxUploads == 2

DocumentTypes == { "receipt", "payslip" }

\* mockFile of the hook tests, an oversize image and a text file
UploadFiles ==
    { testFile,
      [ name |-> <<"l", "a", "r", "g", "e", ".", "j", "p", "g">>, size |-> 11 * 1024 * 1024,
        type |-> "image/jpeg" ],
      [ name |-> <<"t", "e", "s", "t", ".", "t", "x", "t">>, size |-> 7, type |-> "text/plain" ] }

\* error.response?.data?.detail of a failed POST /api/v1/files/upload
UploadErrorDetails == { Undefined, "Storage unavailable" }

ProgressValues == { 50, 100 }

\* the absent `result` of an UploadingFile
NoDocument == [ id |-> 0, type |-> "", original_filename |-> <<>>, processing_status |-> "" ]

\* uploadFile calls made so far, the ones that failed validation included
UploadCalls ==
    Len(uploads) + Cardinality({ i \in DOMAIN returned : returned[i].upload = 0 })

isUploading_AnyEntry == uploadingFiles # <<>>

isUploading == \E i \in DOMAIN uploadingFiles : uploadingFiles[i].status = "uploading"

uploadFile_NoValidation(f, documentType) ==
    LET uploadId == Len(uploads) + 1
    IN  /\ UploadCalls < MaxUploads
        /\ uploadingFiles' = Append(uploadingFiles,
               [ id |-> uploadId, file |-> f, documentType |-> documentType, progress |-> 0,
                 status |-> "uploading", error |-> Undefined, result |-> NoDocument ])
        /\ uploads' = Append(uploads,
               [ file |-> f, documentType |-> documentType, pc |-> "awaiting",
                 error |-> Undefined ])
        /\ serviceCalls' = Append(serviceCalls,
               [ file |-> f, documentType |-> documentType, upload |-> uploadId ])
        /\ lastOp' = [ NoOp EXCEPT !.name = "uploadFile", !.id = uploadId,
                                   !.type = documentType ]
        /\ UNCHANGED <<returned, serverDocs>>
        /\ UNCHANGED <<vForms, vVerification, vLists, vRender, vFileService, vDocuments>>

\* uploadFile up to its await: a validation failure rejects at once; otherwise
\* the entry is appended and FileService.uploadDocument is called.
uploadFile(f, documentType) ==
    LET validationResult == validateFile(f)
        uploadId == Len(uploads) + 1
    IN  /\ UploadCalls < MaxUploads
        /\ IF ~validationResult.valid
           THEN /\ returned' = Append(returned,
                       [ upload |-> 0, file |-> f, kind |-> "rejected",
                         error |-> validationResult.error, doc |-> NoDocument ])
                /\ lastOp' = [ NoOp EXCEPT !.name = "uploadFile", !.type = documentType,
                                           !.ok = FALSE, !.msg = validationResult.error ]
                /\ UNCHANGED <<uploadingFiles, uploads, serviceCalls, serverDocs>>
           ELSE /\ uploadingFiles' = Append(uploadingFiles,
                       [ id |-> uploadId, file |-> f, documentType |-> documentType,
                         progress |-> 0, status |-> "uploading", error |-> Undefined,
                         result |-> NoDocument ])
                /\ uploads' = Append(uploads,
                       [ file |-> f, documentType |-> documentType, pc |-> "awaiting",
                         error |-> Undefined ])
                /\ serviceCalls' = Append(serviceCalls,
                       [ file |-> f, documentType |-> documentType, upload |-> uploadId ])
                /\ lastOp' = [ NoOp EXCEPT !.name = "uploadFile", !.id = uploadId,
                                           !.type = documentType ]
                /\ UNCHANGED <<returned, serverDocs>>
        /\ UNCHANGED <<vForms, vVerification, vLists, vRender, vFileService, vDocuments>>

\* the onProgress callback of upload u
uploadProgress(u, percentage) ==
    /\ u \in DOMAIN uploads
    /\ uploads[u].pc = "awaiting"
    /\ \A i \in DOMAIN uploadingFiles :
           uploadingFiles[i].id = u => uploadingFiles[i].progress < percentage
    /\ LET change(item) == [item EXCEPT !.progress = percentage]
       IN  uploadingFiles' = [ i \in DOMAIN uploadingFiles |->
                                  IF uploadingFiles[i].id = u THEN change(uploadingFiles[i])
                                  ELSE uploadingFiles[i] ]
    /\ lastOp' = [ NoOp EXCEPT !.name = "uploadProgress", !.id = u ]
    /\ UNCHANGED <<uploads, returned, serviceCalls, serverDocs>>
    /\ UNCHANGED <<vForms, vVerification, vLists, vRender, vFileService, vDocuments>>

\* the Document of a successful response (mockDocument of the hook tests)
UploadedDocument(u) ==
    [ id |-> Len(serverDocs) + 1, type |-> uploads[u].documentType,
      original_filename |-> uploads[u].file.name, processing_status |-> "pending" ]

uploadResolved_NoResult(u) ==
    /\ u \in DOMAIN uploads
    /\ uploads[u].pc = "awaiting"
    /\ LET result == UploadedDocument(u)
           change(item) == [item EXCEPT !.status = "completed"]
       IN  /\ serverDocs' = Append(serverDocs, [ upload |-> u, doc |-> result ])
           /\ uploadingFiles' = [ i \in DOMAIN uploadingFiles |->
                                  IF uploadingFiles[i].id = u THEN change(uploadingFiles[i])
                                  ELSE uploadingFiles[i] ]
           /\ returned' = Append(returned,
                  [ upload |-> u, file |-> uploads[u].file, kind |-> "resolved",
                    error |-> Undefined, doc |-> result ])
    /\ uploads' = [uploads EXCEPT ![u].pc = "resolved"]
    /\ lastOp' = [ NoOp EXCEPT !.name = "uploadResolved", !.id = u ]
    /\ UNCHANGED serviceCalls
    /\ UNCHANGED <<vForms, vVerification, vLists, vRender, vFileService, vDocuments>>

\* uploadDocument resolves: the entry is marked completed with the result and
\* uploadFile returns the result.
uploadResolved(u) ==
    /\ u \in DOMAIN uploads
    /\ uploads[u].pc = "awaiting"
    /\ LET result == UploadedDocument(u)
           change(item) == [item EXCEPT !.status = "completed", !.result = result]
       IN  /\ serverDocs' = Append(serverDocs, [ upload |-> u, doc |-> result ])
           /\ uploadingFiles' = [ i \in DOMAIN uploadingFiles |->
                                  IF uploadingFiles[i].id = u THEN change(uploadingFiles[i])
                                  ELSE uploadingFiles[i] ]
           /\ returned' = Append(returned,
                  [ upload |-> u, file |-> uploads[u].file, kind |-> "resolved",
                    error |-> Undefined, doc |-> result ])
    /\ uploads' = [uploads EXCEPT ![u].pc = "resolved"]
    /\ lastOp' = [ NoOp EXCEPT !.name = "uploadResolved", !.id = u ]
    /\ UNCHANGED serviceCalls
    /\ UNCHANGED <<vForms, vVerification, vLists, vRender, vFileService, vDocuments>>

\* new Error(error.response?.data?.detail || 'Upload failed')
UploadErrorMessage(detail) == IF detail = Undefined THEN "Upload failed" ELSE detail

uploadRejected_KeepsStatus(u, detail) ==
    /\ u \in DOMAIN uploads
    /\ uploads[u].pc = "awaiting"
    /\ LET message == UploadErrorMessage(detail)
           change(item) == [item EXCEPT !.error = message]
       IN  /\ uploadingFiles' = [ i \in DOMAIN uploadingFiles |->
                                  IF uploadingFiles[i].id = u THEN change(uploadingFiles[i])
                                  ELSE uploadingFiles[i] ]
           /\ uploads' = [uploads EXCEPT ![u].pc = "rejected", ![u].error = message]
           /\ returned' = Append(returned,
                  [ upload |-> u, file |-> uploads[u].file, kind |-> "rejected",
                    error |-> message, doc |-> NoDocument ])
           /\ lastOp' = [ NoOp EXCEPT !.name = "uploadRejected", !.id = u, !.ok = FALSE,
                                      !.msg = message ]
    /\ UNCHANGED <<serviceCalls, serverDocs>>
    /\ UNCHANGED <<vForms, vVerification, vLists, vRender, vFileService, vDocuments>>

\* uploadDocument rejects: the entry is marked error with the message and
\* uploadFile rethrows.
uploadRejected(u, detail) ==
    /\ u \in DOMAIN uploads
    /\ uploads[u].pc = "awaiting"
    /\ LET message == UploadErrorMessage(detail)
           change(item) == [item EXCEPT !.status = "error", !.error = message]
       IN  /\ uploadingFiles' = [ i \in DOMAIN uploadingFiles |->
                                  IF uploadingFiles[i].id = u THEN change(uploadingFiles[i])
                                  ELSE uploadingFiles[i] ]
           /\ uploads' = [uploads EXCEPT ![u].pc = "rejected", ![u].error = message]
           /\ returned' = Append(returned,
                  [ upload |-> u, file |-> uploads[u].file, kind |-> "rejected",
                    error |-> message, doc |-> NoDocument ])
           /\ lastOp' = [ NoOp EXCEPT !.name = "uploadRejected", !.id = u, !.ok = FALSE,
                                      !.msg = message ]
    /\ UNCHANGED <<serviceCalls, serverDocs>>
    /\ UNCHANGED <<vForms, vVerification, vLists, vRender, vFileService, vDocuments>>

removeUploadingFile_KeepsMatch(id) ==
    /\ LET keep(item) == item.id = id
       IN  uploadingFiles' = SelectSeq(uploadingFiles, keep)
    /\ lastOp' = [ NoOp EXCEPT !.name = "removeUploadingFile", !.id = id ]
    /\ UNCHANGED <<uploads, returned, serviceCalls, serverDocs>>
    /\ UNCHANGED <<vForms, vVerification, vLists, vRender, vFileService, vDocuments>>

removeUploadingFile(id) ==
    /\ LET keep(item) == item.id # id
       IN  uploadingFiles' = SelectSeq(uploadingFiles, keep)
    /\ lastOp' = [ NoOp EXCEPT !.name = "removeUploadingFile", !.id = id ]
    /\ UNCHANGED <<uploads, returned, serviceCalls, serverDocs>>
    /\ UNCHANGED <<vForms, vVerification, vLists, vRender, vFileService, vDocuments>>

clearCompleted ==
    /\ LET keep(item) == item.status # "completed"
       IN  uploadingFiles' = SelectSeq(uploadingFiles, keep)
    /\ lastOp' = [ NoOp EXCEPT !.name = "clearCompleted" ]
    /\ UNCHANGED <<uploads, returned, serviceCalls, serverDocs>>
    /\ UNCHANGED <<vForms, vVerification, vLists, vRender, vFileService, vDocuments>>

\* ids a caller may pass to removeUploadingFile: every id issued so far and
\* one that was never issued
RemovableIds == 1..(Len(uploads) + 1)

NextUpload ==
    \/ \E f \in UploadFiles : \E documentType \in DocumentTypes : uploadFile(f, documentType)
    \/ \E u \in DOMAIN uploads : \E percentage \in ProgressValues : uploadProgress(u, percentage)
    \/ \E u \in DOMAIN uploads : uploadResolved(u)
    \/ \E u \in DOMAIN uploads : \E detail \in UploadErrorDetails : uploadRejected(u, detail)
    \/ \E id \in RemovableIds : removeUploadingFile(id)
    \/ clearCompleted

SpecUpload == Init /\ [][NextUpload]_vars

(***************************************************************************)
(* useDocuments, and the refresh() that Upload.handleFiles calls after a    *)
(* successful upload.  requests lists, in the order they were made, the     *)
(* loadDocuments calls whose FileService.getDocuments promise is pending;   *)
(* deletes likewise for deleteDocument.  lastOp carries what the service    *)
(* answered and what the hook threw.                                        *)
(***************************************************************************)
MaxRequests == 2

MaxDeletes == 1

\* a sequence without its k-th element
RemoveAt(seq, k) == SubSeq(seq, 1, k - 1) \o SubSeq(seq, k + 1, Len(seq))

\* type?: 'receipt' | 'payslip'
TypeArguments == { Undefined, "receipt", "payslip" }

\* the Documents a response can list (mockDocument of the hook tests and a payslip)
mockDocument ==
    [ id |-> 1, type |-> "receipt",
      original_filename |-> <<"t", "e", "s", "t", "-", "r", "e", "c", "e", "i", "p", "t", ".", "j", "p", "g">>,
      processing_status |-> "pending" ]

mockPayslip ==
    [ id |-> 2, type |-> "payslip",
      original_filename |-> <<"p", "a", "y", "s", "l", "i", "p", ".", "p", "d", "f">>,
      processing_status |-> "pending" ]

\* DocumentListResponse values for GET /api/v1/files/ with the given type
DocumentResponses(type) ==
    LET lists == IF type = "receipt" THEN { <<>>, <<mockDocument>> }
                 ELSE IF type = "payslip" THEN { <<>>, <<mockPayslip>> }
                 ELSE { <<>>, <<mockDocument>>, <<mockDocument, mockPayslip>> }
    IN  { [ documents |-> l, total |-> Len(l) ] : l \in lists }

\* error.response?.data?.detail of a failed request
ErrorDetails == { Undefined, "Network error" }

\* ids the Delete button of a listed row passes to deleteDocument
DeleteIds == { documents[i].id : i \in DOMAIN documents }

\* the synchronous part of loadDocuments(type): setLoading(true), setError(null),
\* FileService.getDocuments(type)
loadDocuments(type) ==
    /\ Len(requests) < MaxRequests
    /\ loading' = TRUE
    /\ error' = Null
    /\ requests' = Append(requests, [ type |-> type ])

\* useEffect(() => { loadDocuments(); }, [loadDocuments])
mountEffect ==
    /\ ~mounted
    /\ mounted' = TRUE
    /\ loadDocuments(Undefined)
    /\ lastOp' = [ NoOp EXCEPT !.name = "mount", !.type = Undefined ]
    /\ UNCHANGED <<documents, total, currentFilter, deletes, capturedFilter>>
    /\ UNCHANGED <<vForms, vVerification, vLists, vRender, vFileService, vUpload>>

\* currentFilter === 'all' ? undefined : currentFilter
FilterType(filter) == IF filter = "all" THEN Undefined ELSE filter

filterByType(type) ==
    /\ mounted
    /\ currentFilter' = (IF type = Undefined THEN "all" ELSE type)
    /\ loadDocuments(type)
    /\ lastOp' = [ NoOp EXCEPT !.name = "filterByType", !.type = type ]
    /\ UNCHANGED <<documents, total, mounted, deletes, capturedFilter>>
    /\ UNCHANGED <<vForms, vVerification, vLists, vRender, vFileService, vUpload>>

\* refresh of the current render (the Refresh button)
refresh ==
    /\ mounted
    /\ loadDocuments(FilterType(currentFilter))
    /\ lastOp' = [ NoOp EXCEPT !.name = "refresh", !.type = FilterType(currentFilter),
                               !.msg = "Refresh button" ]
    /\ UNCHANGED <<documents, total, currentFilter, mounted, deletes, capturedFilter>>
    /\ UNCHANGED <<vForms, vVerification, vLists, vRender, vFileService, vUpload>>

\* Upload.handleFiles is called: the callback of the current render closes
\* over this render's refresh, hence over this render's currentFilter.
handleFilesBegin ==
    /\ mounted
    /\ capturedFilter = NotCaptured
    /\ capturedFilter' = currentFilter
    /\ lastOp' = [ NoOp EXCEPT !.name = "handleFiles" ]
    /\ UNCHANGED <<documents, loading, error, total, currentFilter, mounted, requests, deletes>>
    /\ UNCHANGED <<vForms, vVerification, vLists, vRender, vFileService, vUpload>>

\* await uploadFile(...) has resolved for the last file: handleFiles calls
\* the refresh it closed over and returns.
handleFilesRefresh ==
    /\ capturedFilter # NotCaptured
    /\ loadDocuments(FilterType(capturedFilter))
    /\ capturedFilter' = NotCaptured
    /\ lastOp' = [ NoOp EXCEPT !.name = "refresh", !.type = FilterType(capturedFilter),
                               !.msg = "Upload.handleFiles" ]
    /\ UNCHANGED <<documents, total, currentFilter, mounted, deletes>>
    /\ UNCHANGED <<vForms, vVerification, vLists, vRender, vFileService, vUpload>>

\* getDocuments resolves: setDocuments, setTotal, finally setLoading(false)
loadResolved(k, response) ==
    /\ k \in DOMAIN requests
    /\ documents' = response.documents
    /\ total' = response.total
    /\ loading' = FALSE
    /\ requests' = RemoveAt(requests, k)
    /\ lastOp' = [ NoOp EXCEPT !.name = "loadResolved", !.id = k, !.response = response ]
    /\ UNCHANGED <<error, currentFilter, mounted, deletes, capturedFilter>>
    /\ UNCHANGED <<vForms, vVerification, vLists, vRender, vFileService, vUpload>>

\* new Error(error.response?.data?.detail || 'Failed to load documents')
LoadErrorMessage(detail) == IF detail = Undefined THEN "Failed to load documents" ELSE detail

loadRejected_ClearsDocuments(k, detail) ==
    /\ k \in DOMAIN requests
    /\ error' = LoadErrorMessage(detail)
    /\ documents' = <<>>
    /\ total' = 0
    /\ loading' = FALSE
    /\ requests' = RemoveAt(requests, k)
    /\ lastOp' = [ NoOp EXCEPT !.name = "loadRejected", !.id = k, !.ok = FALSE,
                               !.msg = LoadErrorMessage(detail) ]
    /\ UNCHANGED <<currentFilter, mounted, deletes, capturedFilter>>
    /\ UNCHANGED <<vForms, vVerification, vLists, vRender, vFileService, vUpload>>

\* getDocuments rejects: setError(message), finally setLoading(false)
loadRejected(k, detail) ==
    /\ k \in DOMAIN requests
    /\ error' = LoadErrorMessage(detail)
    /\ loading' = FALSE
    /\ requests' = RemoveAt(requests, k)
    /\ lastOp' = [ NoOp EXCEPT !.name = "loadRejected", !.id = k, !.ok = FALSE,
                               !.msg = LoadErrorMessage(detail) ]
    /\ UNCHANGED <<documents, total, currentFilter, mounted, deletes, capturedFilter>>
    /\ UNCHANGED <<vForms, vVerification, vLists, vRender, vFileService, vUpload>>

\* deleteDocument(documentId) up to its await
deleteDocument(documentId) ==
    /\ mounted
    /\ Len(deletes) < MaxDeletes
    /\ deletes' = Append(deletes, documentId)
    /\ lastOp' = [ NoOp EXCEPT !.name = "deleteDocument", !.id = documentId ]
    /\ UNCHANGED <<documents, loading, error, total, currentFilter, mounted, requests,
                   capturedFilter>>
    /\ UNCHANGED <<vForms, vVerification, vLists, vRender, vFileService, vUpload>>

deleteResolved_KeepsTotal(k) ==
    /\ k \in DOMAIN deletes
    /\ LET keep(doc) == doc.id # deletes[k]
       IN  documents' = SelectSeq(documents, keep)
    /\ deletes' = RemoveAt(deletes, k)
    /\ lastOp' = [ NoOp EXCEPT !.name = "deleteResolved", !.id = deletes[k] ]
    /\ UNCHANGED <<loading, error, total, currentFilter, mounted, requests, capturedFilter>>
    /\ UNCHANGED <<vForms, vVerification, vLists, vRender, vFileService, vUpload>>

\* FileService.deleteDocument resolves: the Document is filtered out and
\* total is decremented
deleteResolved(k) ==
    /\ k \in DOMAIN deletes
    /\ LET keep(doc) == doc.id # deletes[k]
       IN  documents' = SelectSeq(documents, keep)
    /\ total' = total - 1
    /\ deletes' = RemoveAt(deletes, k)
    /\ lastOp' = [ NoOp EXCEPT !.name = "deleteResolved", !.id = deletes[k] ]
    /\ UNCHANGED <<loading, error, currentFilter, mounted, requests, capturedFilter>>
    /\ UNCHANGED <<vForms, vVerification, vLists, vRender, vFileService, vUpload>>

\* new Error(error.response?.data?.detail || 'Failed to delete document')
DeleteErrorMessage(detail) == IF detail = Undefined THEN "Failed to delete document" ELSE detail

\* FileService.deleteDocument rejects: throw new Error(errorMessage)
deleteRejected(k, detail) ==
    /\ k \in DOMAIN deletes
    /\ deletes' = RemoveAt(deletes, k)
    /\ lastOp' = [ NoOp EXCEPT !.name = "deleteRejected", !.id = deletes[k], !.ok = FALSE,
                               !.msg = DeleteErrorMessage(detail),
                               !.thrown = DeleteErrorMessage(detail) ]
    /\ UNCHANGED <<documents, loading, error, total, currentFilter, mounted, requests,
                   capturedFilter>>
    /\ UNCHANGED <<vForms, vVerification, vLists, vRender, vFileService, vUpload>>

NextDocuments ==
    \/ mountEffect
    \/ \E type \in TypeArguments : filterByType(type)
    \/ refresh
    \/ handleFilesBegin
    \/ handleFilesRefresh
    \/ \E k \in DOMAIN requests : \E response \in DocumentResponses(requests[k].type) :
           loadResolved(k, response)
    \/ \E k \in DOMAIN requests : \E detail \in ErrorDetails : loadRejected(k, detail)
    \/ \E documentId \in DeleteIds : deleteDocument(documentId)
    \/ \E k \in DOMAIN deletes : deleteResolved(k)
    \/ \E k \in DOMAIN deletes : \E detail \in ErrorDetails : deleteRejected(k, detail)

SpecDocuments == Init /\ [][NextDocuments]_vars

(***************************************************************************)
(* The API-backed Upload page: handleFiles over useFileUpload and           *)
(* useDocuments.  A FileList of one file is handled at a time; pageUpload   *)
(* is the upload the running handleFiles call awaits, capturedFilter the    *)
(* currentFilter its refresh closes over.                                   *)
(***************************************************************************)
\* the files of the hook tests and one named after a payslip
PageFiles ==
    UploadFiles \cup
    { [ name |-> <<"p", "a", "y", "s", "l", "i", "p", ".", "p", "d", "f">>, size |-> 1024,
        type |-> "application/pdf" ] }

\* a || b on strings: a unless it is the empty string
OrElse(a, b) == IF a # "" THEN a ELSE b

\* onChange of the "Default Document Type" radio group
setSelectedDocumentType(type) ==
    /\ selectedDocumentType' = type
    /\ lastOp' = [ NoOp EXCEPT !.name = "setSelectedDocumentType", !.type = type ]
    /\ UNCHANGED <<snackbar, pageUpload>>
    /\ UNCHANGED <<vAuth, vRegister, vVerification, vLists, vRender, vFileService, vUpload,
                   vDocuments>>

\* handleFiles up to `await uploadFile(file, documentType)`: a file failing
\* validation only raises the snackbar; otherwise uploadFile runs up to its
\* own await with the document type computed from the name and the selection
handleFiles(f) ==
    LET validationResult == validateFile(f)
        documentType == OrElse(inferDocumentType(f.name), selectedDocumentType)
        uploadId == Len(uploads) + 1
    IN  /\ mounted
        /\ pageUpload = 0
        /\ IF ~validationResult.valid
           THEN /\ snackbar' = [ open |-> TRUE, name |-> <<>>,
                                 message |-> OrElse(validationResult.error, "Invalid file"),
                                 severity |-> "error" ]
                /\ lastOp' = [ NoOp EXCEPT !.name = "handleFiles", !.ok = FALSE ]
                /\ UNCHANGED <<pageUpload, capturedFilter, uploadingFiles, uploads,
                               serviceCalls>>
           ELSE /\ Len(uploads) < MaxUploads
                /\ uploadingFiles' = Append(uploadingFiles,
                       [ id |-> uploadId, file |-> f, documentType |-> documentType,
                         progress |-> 0, status |-> "uploading", error |-> Undefined,
                         result |-> NoDocument ])
                /\ uploads' = Append(uploads,
                       [ file |-> f, documentType |-> documentType, pc |-> "awaiting",
                         error |-> Undefined ])
                /\ serviceCalls' = Append(serviceCalls,
                       [ file |-> f, documentType |-> documentType, upload |-> uploadId ])
                /\ pageUpload' = uploadId
                /\ capturedFilter' = currentFilter
                /\ lastOp' = [ NoOp EXCEPT !.name = "handleFiles", !.id = uploadId,
                                           !.type = documentType ]
                /\ UNCHANGED snackbar
        /\ UNCHANGED <<selectedDocumentType, returned, serverDocs>>
        /\ UNCHANGED <<documents, loading, error, total, currentFilter, mounted, requests,
                       deletes>>
        /\ UNCHANGED <<vAuth, vRegister, vVerification, vLists, vRender, vFileService>>

\* handleFiles after uploadFile settled: the success snackbar and refresh(),
\* or the error snackbar
handleFilesResume ==
    /\ pageUpload # 0
    /\ uploads[pageUpload].pc # "awaiting"
    /\ IF uploads[pageUpload].pc = "resolved"
       THEN /\ snackbar' = [ open |-> TRUE, name |-> uploads[pageUpload].file.name,
                             message |-> "uploaded successfully!", severity |-> "success" ]
            /\ loadDocuments(FilterType(capturedFilter))
       ELSE /\ snackbar' = [ open |-> TRUE, name |-> uploads[pageUpload].file.name,
                             message |-> uploads[pageUpload].error, severity |-> "error" ]
            /\ UNCHANGED <<loading, error, requests>>
    /\ pageUpload' = 0
    /\ capturedFilter' = NotCaptured
    /\ lastOp' = [ NoOp EXCEPT !.name = "handleFilesResume", !.id = pageUpload ]
    /\ UNCHANGED <<selectedDocumentType, documents, total, currentFilter, mounted, deletes>>
    /\ UNCHANGED <<vAuth, vRegister, vVerification, vLists, vRender, vFileService, vUpload>>

\* onClose of the Snackbar
closeSnackbar ==
    /\ snackbar.open
    /\ snackbar' = [snackbar EXCEPT !.open = FALSE]
    /\ lastOp' = [ NoOp EXCEPT !.name = "closeSnackbar" ]
    /\ UNCHANGED <<selectedDocumentType, pageUpload>>
    /\ UNCHANGED <<vAuth, vRegister, vVerification, vLists, vRender, vFileService, vUpload,
                   vDocuments>>

NextUploadPage ==
    \/ mountEffect
    \/ \E type \in DocumentTypes : setSelectedDocumentType(type)
    \/ \E f \in PageFiles : handleFiles(f)
    \/ \E u \in DOMAIN uploads : uploadResolved(u)
    \/ \E u \in DOMAIN uploads : \E detail \in UploadErrorDetails : uploadRejected(u, detail)
    \/ handleFilesResume
    \/ closeSnackbar
    \/ \E k \in DOMAIN requests : \E response \in DocumentResponses(requests[k].type) :
           loadResolved(k, response)
    \/ \E k \in DOMAIN requests : \E detail \in ErrorDetails : loadRejected(k, detail)

SpecUploadPage == Init /\ [][NextUploadPage]_vars

(***************************************************************************)
(* The Register page: validateForm, handleChange and handleSubmit.  Field   *)
(* values are sequences of characters; an absent field error and the error  *)
(* '' that handleChange writes are both the empty string.                   *)
(***************************************************************************)
Whitespace == {" ", "\t", "\n"}

Digits == {"0", "1", "2", "3", "4", "5", "6", "7", "8", "9"}

\* the character class [@$!%*?&] of validatePassword
SpecialCharacters == {"@", "$", "!", "%", "*", "?", "&"}

MIN_PASSWORD_LENGTH == 8

MIN_NAME_LENGTH == 2

\* String.prototype.trim
trim(s) ==
    LET kept == { i \in 1..Len(s) : s[i] \notin Whitespace }
    IN  IF kept = {} THEN <<>>
        ELSE SubSeq(s, CHOOSE i \in kept : \A j \in kept : i <= j,
                       CHOOSE i \in kept : \A j \in kept : j <= i)

\* /^[^\s@]+@[^\s@]+\.[^\s@]+$/.test(email): some '@' and some later '.'
\* split the string into three non-empty runs free of whitespace and '@'
validateEmail(email) ==
    \E at \in 1..Len(email) : \E dot \in 1..Len(email) :
        /\ email[at] = "@"
        /\ email[dot] = "."
        /\ 1 < at
        /\ at + 1 < dot
        /\ dot < Len(email)
        /\ \A k \in (1..Len(email)) \ {at} : email[k] \notin Whitespace \cup {"@"}

\* some character of s is one of chars
HasCharacter(s, chars) == \E i \in 1..Len(s) : s[i] \in chars

Letters(alphabet) == { alphabet[j] : j \in DOMAIN alphabet }

validatePassword_ShortMinimum(password) ==
    (IF Len(password) < MIN_PASSWORD_LENGTH - 1
     THEN <<"Password must be at least 8 characters long">> ELSE <<>>) \o
    (IF ~HasCharacter(password, Letters(LowerCase))
     THEN <<"Password must contain at least one lowercase letter">> ELSE <<>>) \o
    (IF ~HasCharacter(password, Letters(UpperCase))
     THEN <<"Password must contain at least one uppercase letter">> ELSE <<>>) \o
    (IF ~HasCharacter(password, Digits)
     THEN <<"Password must contain at least one number">> ELSE <<>>) \o
    (IF ~HasCharacter(password, SpecialCharacters)
     THEN <<"Password must contain at least one special character (@$!%*?&)">>
     ELSE <<>>)

\* validatePassword: the messages of the failed rules, in the order tested
validatePassword(password) ==
    (IF Len(password) < MIN_PASSWORD_LENGTH
     THEN <<"Password must be at least 8 characters long">> ELSE <<>>) \o
    (IF ~HasCharacter(password, Letters(LowerCase))
     THEN <<"Password must contain at least one lowercase letter">> ELSE <<>>) \o
    (IF ~HasCharacter(password, Letters(UpperCase))
     THEN <<"Password must contain at least one uppercase letter">> ELSE <<>>) \o
    (IF ~HasCharacter(password, Digits)
     THEN <<"Password must contain at least one number">> ELSE <<>>) \o
    (IF ~HasCharacter(password, SpecialCharacters)
     THEN <<"Password must contain at least one special character (@$!%*?&)">>
     ELSE <<>>)

\* the errors object validateForm builds from the form
validateFormErrors(form) ==
    [ firstName |->
          IF trim(form.firstName) = <<>> THEN "First name is required"
          ELSE IF Len(trim(form.firstName)) < MIN_NAME_LENGTH
               THEN "First name must be at least 2 characters"
               ELSE "",
      lastName |->
          IF trim(form.lastName) = <<>> THEN "Last name is required"
          ELSE IF Len(trim(form.lastName)) < MIN_NAME_LENGTH
               THEN "Last name must be at least 2 characters"
               ELSE "",
      email |->
          IF trim(form.email) = <<>> THEN "Email is required"
          ELSE IF ~validateEmail(form.email) THEN "Please enter a valid email address"
               ELSE "",
      password |->
          IF form.password = <<>> THEN "Password is required"
          ELSE IF validatePassword(form.password) # <<>>
               THEN validatePassword(form.password)[1]
               ELSE "",
      confirmPassword |->
          IF form.confirmPassword = <<>> THEN "Please confirm your password"
          ELSE IF form.password # form.confirmPassword THEN "Passwords do not match"
               ELSE "" ]

\* the result of validateForm
validateForm(form, terms) ==
    /\ validateFormErrors(form) = NoFieldErrors
    /\ terms

\* values typed into the fields: names of one and two characters with
\* surrounding blanks, addresses with and without a dot and with a trailing
\* blank, and passwords breaking one rule each
FieldNames == {"firstName", "lastName", "email", "password", "confirmPassword"}

GoodPassword == <<"A", "a", "1", "@", "a", "a", "a", "a">>

Passwords ==
    { GoodPassword,
      <<"A", "a", "1", "@", "a", "a", "a">>,
      <<"a", "a", "1", "@", "a", "a", "a", "a">>,
      <<"A", "A", "1", "@", "A", "A", "A", "A">>,
      <<"A", "a", "a", "@", "a", "a", "a", "a">>,
      <<"A", "a", "1", "#", "a", "a", "a", "a">> }

FieldValues(field) ==
    CASE field = "firstName" -> { <<" ", "J", " ">>, <<" ", "J", "o">> }
      [] field = "lastName" -> { <<"D">>, <<"D", "o">> }
      [] field = "email" -> { <<"a", "@", "b", ".", "c">>, <<"a", "@", "b">>,
                              <<"a", "@", "b", ".", "c", " ">> }
      [] field = "password" -> Passwords
      [] field = "confirmPassword" -> { GoodPassword, <<"A", "a", "1", "@", "a", "a", "a">> }

RegisterErrorDetails == { "Email already registered", Undefined }

\* onChange of a text field
handleChange(field, value) ==
    /\ ~isLoading
    /\ registerFormData' = [registerFormData EXCEPT ![field] = value]
    /\ fieldErrors' = IF fieldErrors[field] # "" THEN [fieldErrors EXCEPT ![field] = ""]
                      ELSE fieldErrors
    /\ lastOp' = [ NoOp EXCEPT !.name = "handleChange", !.type = field ]
    /\ UNCHANGED <<acceptTerms, registerError, success, isLoading, registerCalls>>
    /\ UNCHANGED <<vAuth, vUploadPage, vVerification, vLists, vRender, vFileService, vUpload,
                   vDocuments>>

\* onChange of the terms checkbox
setAcceptTerms(checked) ==
    /\ ~isLoading
    /\ acceptTerms' = checked
    /\ lastOp' = [ NoOp EXCEPT !.name = "setAcceptTerms", !.ok = checked ]
    /\ UNCHANGED <<registerFormData, registerError, success, isLoading, fieldErrors,
                   registerCalls>>
    /\ UNCHANGED <<vAuth, vUploadPage, vVerification, vLists, vRender, vFileService, vUpload,
                   vDocuments>>

\* handleSubmit up to `await register(...)`: validateForm writes the errors
\* and, on failure, the handler returns; otherwise register is called with
\* the trimmed names and address
handleSubmit ==
    /\ ~isLoading
    /\ fieldErrors' = validateFormErrors(registerFormData)
    /\ IF ~validateForm(registerFormData, acceptTerms)
       THEN /\ registerError' =
                   IF ~acceptTerms
                   THEN "You must accept the terms and conditions to register"
                   ELSE ""
            /\ UNCHANGED <<success, isLoading, registerCalls>>
       ELSE /\ isLoading' = TRUE
            /\ registerError' = ""
            /\ success' = ""
            /\ registerCalls' = Append(registerCalls,
                   [ email |-> trim(registerFormData.email),
                     password |-> registerFormData.password,
                     firstName |-> trim(registerFormData.firstName),
                     lastName |-> trim(registerFormData.lastName) ])
    /\ lastOp' = [ NoOp EXCEPT !.name = "handleSubmit",
                               !.ok = validateForm(registerFormData, acceptTerms) ]
    /\ UNCHANGED <<registerFormData, acceptTerms>>
    /\ UNCHANGED <<vAuth, vUploadPage, vVerification, vLists, vRender, vFileService, vUpload,
                   vDocuments>>

\* register resolved: the success message, and isLoading cleared
registerResolved ==
    /\ isLoading
    /\ success' = "Registration successful! Please sign in to continue."
    /\ isLoading' = FALSE
    /\ registerCalls' = <<>>
    /\ lastOp' = [ NoOp EXCEPT !.name = "registerResolved" ]
    /\ UNCHANGED <<registerFormData, acceptTerms, registerError, fieldErrors>>
    /\ UNCHANGED <<vAuth, vUploadPage, vVerification, vLists, vRender, vFileService, vUpload,
                   vDocuments>>

\* register threw Error(detail || 'Registration failed')
registerRejected(detail) ==
    /\ isLoading
    /\ registerError' = IF detail # Undefined THEN detail ELSE "Registration failed"
    /\ isLoading' = FALSE
    /\ registerCalls' = <<>>
    /\ lastOp' = [ NoOp EXCEPT !.name = "registerRejected", !.ok = FALSE ]
    /\ UNCHANGED <<registerFormData, acceptTerms, success, fieldErrors>>
    /\ UNCHANGED <<vAuth, vUploadPage, vVerification, vLists, vRender, vFileService, vUpload,
                   vDocuments>>

NextRegister ==
    \/ \E field \in FieldNames : \E value \in FieldValues(field) : handleChange(field, value)
    \/ \E checked \in BOOLEAN : setAcceptTerms(checked)
    \/ handleSubmit
    \/ registerResolved
    \/ \E detail \in RegisterErrorDetails : registerRejected(detail)

SpecRegister == Init /\ [][NextRegister]_vars

(***************************************************************************)
(* AuthContext: token storage, the response interceptor and refreshToken.   *)
(* authRequest is the innermost axios request in flight (a request made by  *)
(* the app while logged in, or the POST /auth/refresh of refreshToken) and *)
(* the status the server answered with.  Every request is dispatched while  *)
(* the installed response interceptor closes over a non-null accessToken,   *)
(* and POST /auth/refresh goes through the same global axios instance, so   *)
(* a 401 to it enters the interceptor again: nesting counts the interceptor *)
(* handlers suspended in `await refreshToken()`, MaxNesting standing for    *)
(* "MaxNesting or more".                                                    *)
(***************************************************************************)
MaxNesting == 2

Statuses == { 200, 401, 500 }

\* access_token / refresh_token values of the login and refresh responses
ServerAccessTokens == { "access-1", "access-2" }

ServerRefreshTokens == { "refresh-1", "refresh-2" }

\* isAuthenticated: !!user && !!accessToken
isAuthenticated == user # Null /\ accessToken # Null

\* localStorage.getItem('refreshToken') || sessionStorage.getItem('refreshToken')
storedRefreshToken ==
    IF localStorage.refreshToken # Null THEN localStorage.refreshToken
    ELSE sessionStorage.refreshToken

\* login after POST /auth/login succeeded
login(rememberMe, access_token, newRefreshToken) ==
    /\ user = Null
    /\ IF rememberMe
       THEN /\ localStorage' = [ accessToken |-> access_token,
                                 refreshToken |-> newRefreshToken ]
            /\ UNCHANGED sessionStorage
       ELSE /\ sessionStorage' = [ accessToken |-> access_token,
                                   refreshToken |-> newRefreshToken ]
            /\ UNCHANGED localStorage
    /\ accessToken' = access_token
    /\ user' = "user"
    /\ UNCHANGED <<authRequest, nesting>>
    /\ UNCHANGED <<vUploadPage, vRegister, vVerification, vLists, vRender, vFileService,
                   vUpload, vDocuments, lastOp>>

\* logout(): both storages are cleared, accessToken and user set to null
logout ==
    /\ localStorage' = NoTokens
    /\ sessionStorage' = NoTokens
    /\ accessToken' = Null
    /\ user' = Null

\* the user signs out
userLogout ==
    /\ user # Null
    /\ logout
    /\ UNCHANGED <<authRequest, nesting>>
    /\ UNCHANGED <<vUploadPage, vRegister, vVerification, vLists, vRender, vFileService,
                   vUpload, vDocuments, lastOp>>

\* localStorage is shared: another tab of the app signs out
otherTabLogout ==
    /\ localStorage # NoTokens
    /\ localStorage' = NoTokens
    /\ UNCHANGED <<sessionStorage, user, accessToken, authRequest, nesting>>
    /\ UNCHANGED <<vUploadPage, vRegister, vVerification, vLists, vRender, vFileService,
                   vUpload, vDocuments, lastOp>>

\* a page of the app makes an API request while logged in
makeRequest ==
    /\ isAuthenticated
    /\ authRequest = NoRequest
    /\ authRequest' = [ kind |-> "request", status |-> 0 ]
    /\ nesting' = 0
    /\ UNCHANGED <<localStorage, sessionStorage, user, accessToken>>
    /\ UNCHANGED <<vUploadPage, vRegister, vVerification, vLists, vRender, vFileService,
                   vUpload, vDocuments, lastOp>>

\* the server answers the request in flight
serverAnswers(status) ==
    /\ authRequest.kind # "none"
    /\ authRequest.status = 0
    /\ authRequest' = [authRequest EXCEPT !.status = status]
    /\ UNCHANGED <<localStorage, sessionStorage, user, accessToken, nesting>>
    /\ UNCHANGED <<vUploadPage, vRegister, vVerification, vLists, vRender, vFileService,
                   vUpload, vDocuments, lastOp>>

\* refreshToken() found no stored token, or its request failed with a status
\* the interceptor does not handle: it returns false, and every suspended
\* handler, innermost first, calls logout() and rejects.
refreshFailed ==
    /\ logout
    /\ authRequest' = NoRequest
    /\ nesting' = 0

\* the response interceptor handles a 401: refreshToken() is called and posts
\* the stored refresh token, or returns false when there is none
handle401 ==
    IF storedRefreshToken = Null
    THEN refreshFailed
    ELSE /\ authRequest' = [ kind |-> "refresh", status |-> 0 ]
         /\ nesting' = IF nesting < MaxNesting THEN nesting + 1 ELSE MaxNesting
         /\ UNCHANGED <<localStorage, sessionStorage, user, accessToken>>

\* refreshToken() after POST /auth/refresh succeeded: the tokens are stored
\* where the refresh token is, accessToken is set, and the handler that
\* awaited it retries its own request
refreshSucceeded(access_token, newRefreshToken) ==
    /\ IF localStorage.refreshToken # Null
       THEN /\ localStorage' = [ accessToken |-> access_token,
                                 refreshToken |-> newRefreshToken ]
            /\ UNCHANGED sessionStorage
       ELSE /\ sessionStorage' = [ accessToken |-> access_token,
                                   refreshToken |-> newRefreshToken ]
            /\ UNCHANGED localStorage
    /\ accessToken' = access_token
    /\ UNCHANGED user
    /\ \/ /\ nesting' = nesting - 1
          /\ authRequest' = [ kind |-> IF nesting = 1 THEN "request" ELSE "refresh",
                              status |-> 0 ]
       \/ /\ nesting = MaxNesting
          /\ nesting' = nesting
          /\ authRequest' = [ kind |-> "refresh", status |-> 0 ]

\* the answer reaches the client: the response interceptor and the
\* continuation of the awaiting code run
clientReceives ==
    /\ authRequest.status # 0
    /\ IF authRequest.status = 401
       THEN handle401
       ELSE IF authRequest.kind = "request"
       THEN /\ authRequest' = NoRequest
            /\ nesting' = 0
            /\ UNCHANGED <<localStorage, sessionStorage, user, accessToken>>
       ELSE IF authRequest.status = 200
       THEN \E access_token \in ServerAccessTokens :
                \E newRefreshToken \in ServerRefreshTokens :
                    refreshSucceeded(access_token, newRefreshToken)
       ELSE refreshFailed
    /\ UNCHANGED <<vUploadPage, vRegister, vVerification, vLists, vRender, vFileService,
                   vUpload, vDocuments, lastOp>>

NextAuth ==
    \/ \E rememberMe \in BOOLEAN : \E access_token \in ServerAccessTokens :
           \E newRefreshToken \in ServerRefreshTokens :
               login(rememberMe, access_token, newRefreshToken)
    \/ userLogout
    \/ otherTabLogout
    \/ makeRequest
    \/ \E status \in Statuses : serverAnswers(status)
    \/ clientReceives

\* every request in flight is answered (a timeout or a network error counts
\* as a failure status), and the promise continuations of an answer run
SpecAuth ==
    /\ Init
    /\ [][NextAuth]_vars
    /\ WF_vars(\E status \in Statuses : serverAnswers(status))
    /\ WF_vars(clientReceives)

(***************************************************************************)
(* Observations used by the properties                                     *)
(***************************************************************************)
\* ids of the Documents the verification queue holds
QueueIds == { pendingItems[i].id : i \in DOMAIN pendingItems }

ItemById(d) == CHOOSE it \in { pendingItems[i] : i \in DOMAIN pendingItems } : it.id = d

\* Documents for which an approve / a reject decision went through
ApprovedDocs ==
    { consoleLog[i].id : i \in { j \in DOMAIN consoleLog : consoleLog[j].kind = "Approved" } }

RejectedDocs ==
    { consoleLog[i].id : i \in { j \in DOMAIN consoleLog : consoleLog[j].kind = "Rejected" } }

DecidedDocs == ApprovedDocs \cup RejectedDocs

\* the financial records derived from Document d: receipt-backed Expenses
\* with the receipt's merchant and amount, Incomes with the payslip's
\* employer and gross pay
RecordsOf(d) ==
    LET it == ItemById(d) IN
    IF it.type = "receipt"
    THEN { <<"expense", expenses[i].id>> : i \in
             { j \in DOMAIN expenses :
                 /\ expenses[j].hasReceipt
                 /\ expenses[j].merchant = it.extractedData.merchant
                 /\ expenses[j].amount = it.extractedData.amount } }
    ELSE { <<"income", incomeData[i].id>> : i \in
             { j \in DOMAIN incomeData :
                 /\ incomeData[j].source = it.extractedData.employer
                 /\ incomeData[j].grossAmount = it.extractedData.grossPay } }

\* the required amount of an approved form: amount for a receipt, net pay
\* for a payslip
RequiredAmount(d, data) ==
    IF ItemById(d).type = "receipt" THEN data.amount ELSE data.netPay

(***************************************************************************)
(* Properties                                                              *)
(***************************************************************************)

\* C1: every Document has at most one financial record (Expense or Income),
\* and it has one if and only if it is verified, that is, if and only if an
\* approval of it went through.
C1_RecordIffVerified ==
    \A d \in QueueIds :
        /\ Cardinality(RecordsOf(d)) <= 1
        /\ (RecordsOf(d) # {}) <=> (d \in ApprovedDocs)

\* C2: a decision (approve or reject) submitted for a Document that has
\* already been decided has no effect: nothing further is recorded for it.
C2_DecisionOnDecidedHasNoEffect ==
    [][ (current.id \in DecidedDocs) => (consoleLog' = consoleLog) ]_vars

\* C3: of the approval submissions made for one Document, exactly one goes
\* through: no Document is approved more than once.
C3_ApprovedExactlyOnce ==
    \A d \in QueueIds :
        Cardinality({ i \in DOMAIN consoleLog :
                        consoleLog[i].kind = "Approved" /\ consoleLog[i].id = d }) <= 1

\* C5: an approval whose required amount is missing or not a number does
\* not go through: every approval that went through carries a valid amount.
C5_ApprovedHasValidAmount ==
    \A i \in DOMAIN consoleLog :
        consoleLog[i].kind = "Approved"
            => RequiredAmount(consoleLog[i].id, consoleLog[i].data) # NaN

\* C6: the verification queue holds exactly the Documents still awaiting a
\* decision: a Document that was approved or rejected is no longer in it.
C6_QueueHoldsOnlyUndecided ==
    QueueIds \cap DecidedDocs = {}

C8_PendingCountsDerived ==
    LET awaiting == Cardinality(QueueIds \ DecidedDocs) IN
    /\ monthlyStats.pendingVerifications = awaiting
    /\ needsReviewCount = awaiting

\* C9: each change of a field of the form on screen appends exactly one
\* entry naming the Document, the field, its previous and its new value.
C9_FieldChangeAppendsAuditEntry ==
    [][ (currentItem' = currentItem /\ formData' # formData)
          => \E f \in DOMAIN formData :
                /\ formData'[f] # formData[f]
                /\ consoleLog' = Append(consoleLog,
                       [ kind |-> "Corrected", id |-> current.id, field |-> f,
                         previous |-> formData[f], new |-> formData'[f] ]) ]_vars

SpecStatuses ==
    { "pending", "extracting", "needs_reextraction", "pending_verification",
      "verified", "rejected", "failed" }

StatusesNamed ==
    \A i \in DOMAIN uploadedFiles : getStatusColor(uploadedFiles[i].status) # "default"

C12_ValidateFile ==
    validation # NotValidated =>
        LET sizeOk == file.size <= 10485760
            typeOk == file.type \in { "image/jpeg", "image/jpg", "image/png", "application/pdf" }
        IN  /\ (validation.valid /\ validation.error = Undefined) <=> (sizeOk /\ typeOk)
            /\ validation.valid <=> (sizeOk /\ typeOk)
            /\ ~sizeOk => validation.error = "File size exceeds 10MB limit"
            /\ (sizeOk /\ ~typeOk) =>
                   validation.error = "File type not supported. Please use JPG, PNG, or PDF files."

\* a file of exactly the limit with an allowed type has been validated
C12_Witness ==
    /\ validation # NotValidated
    /\ file.size = 10485760
    /\ file.type = "application/pdf"
    /\ validation.valid

\* c and d are the same letter, d being lower case
SameLetter(c, d) ==
    \/ c = d
    \/ \E j \in DOMAIN UpperCase : UpperCase[j] = c /\ LowerCase[j] = d

\* w occurs in s at position i, case ignored
OccursAt(s, w, i) ==
    /\ i + Len(w) - 1 <= Len(s)
    /\ \A k \in 1..Len(w) : SameLetter(s[i + k - 1], w[k])

Keywords == { <<"p", "a", "y", "s", "l", "i", "p">>, <<"s", "a", "l", "a", "r", "y">>,
              <<"w", "a", "g", "e">> }

\* C20: inferDocumentType returns 'payslip' exactly when the filename, case
\* ignored, contains 'payslip', 'salary' or 'wage', and 'receipt' otherwise.
C20_InferDocumentType ==
    inferred # NotInferred =>
        /\ inferred \in { "payslip", "receipt" }
        /\ inferred = "payslip" <=>
               \E w \in Keywords : \E i \in 1..Len(file.name) : OccursAt(file.name, w, i)

\* an upper-case keyword inside a longer name has been classified as payslip
C20_Witness ==
    /\ inferred = "payslip"
    /\ file.name = <<"M", "y", "_", "S", "A", "L", "A", "R", "Y", ".", "p", "d", "f">>


(***************************************************************************)
(* useFileUpload: observations and properties                              *)
(***************************************************************************)
\* the entries of uploadingFiles that belong to upload u
EntriesOf(list, u) == { i \in DOMAIN list : list[i].id = u }

\* how the uploadFile promise of upload u settled, if it has
ReturnedOf(u) == { returned[i] : i \in { j \in DOMAIN returned : returned[j].upload = u } }

FailedUploads == { u \in DOMAIN uploads : uploads[u].pc = "rejected" }

InFlightUploads == { u \in DOMAIN uploads : uploads[u].pc = "awaiting" }

PassesValidation(f) ==
    /\ f.size <= 10485760
    /\ f.type \in { "image/jpeg", "image/jpg", "image/png", "application/pdf" }

\* C13: uploadFile validates first.  A call with a file that fails validation
\* rejects with the validation error and leaves uploadingFiles, isUploading
\* and the list of uploadDocument calls as they were; no uploadDocument call
\* and no entry is ever made for such a file.
C13_InvalidFileIsRejectedFirst ==
    [][ /\ \A i \in DOMAIN serviceCalls' : PassesValidation(serviceCalls'[i].file)
        /\ \A i \in DOMAIN uploadingFiles' : PassesValidation(uploadingFiles'[i].file)
        /\ \A i \in DOMAIN returned' :
               ~PassesValidation(returned'[i].file) =>
                   /\ returned'[i].kind = "rejected"
                   /\ returned'[i].upload = 0
                   /\ returned'[i].error = validateFile(returned'[i].file).error
        /\ ( /\ Len(returned') = Len(returned) + 1
             /\ ~PassesValidation(returned'[Len(returned')].file) ) =>
               /\ uploadingFiles' = uploadingFiles
               /\ serviceCalls' = serviceCalls
               /\ isUploading' = isUploading ]_vars

\* an oversize file was rejected while another upload was in flight
C13_Witness ==
    /\ \E i \in DOMAIN returned :
           /\ returned[i].file.size > 10485760
           /\ returned[i].error = "File size exceeds 10MB limit"
    /\ isUploading
    /\ Len(serviceCalls) = 1

\* upload u settles in this step
Settles(u) == u \in InFlightUploads /\ uploads'[u].pc # "awaiting"

\* C14 as claimed: when uploadDocument resolves, uploadFile resolves with
\* that Document and the entry is listed with status completed and that
\* result; when it rejects, uploadFile rejects with the same error and the
\* entry is listed with status error and the error's message.
C14_OutcomeMirrored ==
    [][ \A u \in DOMAIN uploads : Settles(u) =>
          LET r == returned'[Len(returned')]
          IN  /\ Len(returned') = Len(returned) + 1
              /\ r.upload = u
              /\ uploads'[u].pc = "resolved" =>
                     /\ r.kind = "resolved"
                     /\ r.doc = serverDocs'[Len(serverDocs')].doc
                     /\ \E i \in EntriesOf(uploadingFiles', u) :
                            /\ uploadingFiles'[i].status = "completed"
                            /\ uploadingFiles'[i].result = r.doc
              /\ uploads'[u].pc = "rejected" =>
                     /\ r.kind = "rejected"
                     /\ r.error = uploads'[u].error
                     /\ \E i \in EntriesOf(uploadingFiles', u) :
                            /\ uploadingFiles'[i].status = "error"
                            /\ uploadingFiles'[i].error = uploads'[u].error ]_vars

\* C14 amended: the promise mirrors uploadDocument in every case; the entry
\* takes the outcome when it is still listed, and an entry removed while the
\* upload was in flight is not listed again.
C14_OutcomeMirroredWhileListed ==
    [][ \A u \in DOMAIN uploads : Settles(u) =>
          LET r == returned'[Len(returned')]
          IN  /\ Len(returned') = Len(returned) + 1
              /\ r.upload = u
              /\ EntriesOf(uploadingFiles', u) = EntriesOf(uploadingFiles, u)
              /\ uploads'[u].pc = "resolved" =>
                     /\ r.kind = "resolved"
                     /\ r.doc = serverDocs'[Len(serverDocs')].doc
                     /\ serverDocs'[Len(serverDocs')].upload = u
                     /\ \A i \in EntriesOf(uploadingFiles', u) :
                            /\ uploadingFiles'[i].status = "completed"
                            /\ uploadingFiles'[i].result = r.doc
              /\ uploads'[u].pc = "rejected" =>
                     /\ r.kind = "rejected"
                     /\ r.error = uploads'[u].error
                     /\ \A i \in EntriesOf(uploadingFiles', u) :
                            /\ uploadingFiles'[i].status = "error"
                            /\ uploadingFiles'[i].error = uploads'[u].error ]_vars

\* one upload resolved and one rejected, both entries listed with the outcome
C14_Witness ==
    /\ \E i \in DOMAIN uploadingFiles :
           /\ uploadingFiles[i].status = "completed"
           /\ uploadingFiles[i].result \in { r.doc : r \in ReturnedOf(uploadingFiles[i].id) }
    /\ \E i \in DOMAIN uploadingFiles :
           /\ uploadingFiles[i].status = "error"
           /\ uploadingFiles[i].error \in { r.error : r \in ReturnedOf(uploadingFiles[i].id) }

\* C15 as claimed: isUploading is true exactly when some upload started by
\* uploadFile has not settled.
C15_IsUploadingIffInFlight == isUploading <=> (InFlightUploads # {})

\* C15 amended: isUploading is true exactly when some upload that has not
\* settled still has its entry listed; in particular it is false initially
\* and after every started upload has settled.
C15_IsUploadingIffListedInFlight ==
    isUploading <=> (\E u \in InFlightUploads : EntriesOf(uploadingFiles, u) # {})

\* an upload is in flight next to a settled one, and isUploading is true
C15_Witness ==
    /\ isUploading
    /\ InFlightUploads # {}
    /\ \E u \in DOMAIN uploads : uploads[u].pc # "awaiting" /\ EntriesOf(uploadingFiles, u) # {}

C17_InitialLoadAndOutcome ==
    [][ /\ ~mounted =>
               /\ documents = <<>> /\ total = 0 /\ error = Null
               /\ loading /\ currentFilter = "all" /\ requests = <<>>
               /\ mounted' => requests' = << [ type |-> Undefined ] >>
        /\ mounted => mounted'
        /\ lastOp'.name = "loadResolved" =>
               /\ documents' = lastOp'.response.documents
               /\ total' = lastOp'.response.total
               /\ loading' = FALSE
        /\ lastOp'.name = "loadRejected" =>
               /\ error' = lastOp'.msg
               /\ error' # Null
               /\ documents' = documents
               /\ total' = total
               /\ loading' = FALSE ]_vars

\* a load has just failed after an earlier one had filled the list
C17_Witness ==
    /\ lastOp.name = "loadRejected"
    /\ error = "Network error"
    /\ documents = <<mockDocument, mockPayslip>>
    /\ total = 2
    /\ ~loading

\* C18: when the service deletes, the Document with that id leaves
\* documents, the others keep their order, and total goes down by exactly
\* one; when the service fails, deleteDocument rejects with the failure
\* message and documents and total stay as they were.
C18_DeleteOutcome ==
    [][ /\ lastOp'.name = "deleteResolved" =>
               LET at == { i \in DOMAIN documents : documents[i].id = lastOp'.id }
               IN  /\ \A i \in DOMAIN documents' : documents'[i].id # lastOp'.id
                   /\ IF at = {} THEN documents' = documents
                      ELSE \E k \in at : at = {k} /\ documents' = RemoveAt(documents, k)
                   /\ total' = total - 1
        /\ lastOp'.name = "deleteRejected" =>
               /\ lastOp'.thrown = lastOp'.msg
               /\ documents' = documents
               /\ total' = total ]_vars

\* the first of two listed Documents has just been deleted
C18_Witness ==
    /\ lastOp.name = "deleteResolved"
    /\ lastOp.id = 1
    /\ documents = <<mockPayslip>>
    /\ total = 1

LoggedOut ==
    /\ localStorage = NoTokens
    /\ sessionStorage = NoTokens
    /\ user = Null
    /\ accessToken = Null
    /\ ~isAuthenticated

\* POST /auth/refresh has been answered with success
RefreshAnswered200 == authRequest.kind = "refresh" /\ authRequest.status = 200

\* C21: auto-logout.  Once a request made while logged in, or the token
\* refresh that followed it, has been answered 401, the user is eventually
\* logged out, unless a token refresh succeeds.
C21_AutoLogout == (authRequest.status = 401) ~> (LoggedOut \/ RefreshAnswered200)


(***************************************************************************)
(* Upload page: properties                                                 *)
(***************************************************************************)
\* the filename, case ignored, contains 'payslip', 'salary' or 'wage'
NameIndicatesPayslip(name) ==
    \E w \in Keywords : \E i \in 1..Len(name) : OccursAt(name, w, i)

\* C22: the Upload page uploads a file as a payslip when its name indicates
\* one, and otherwise with the document type selected as default: with
\* 'payslip' selected, a file whose name contains none of payslip, salary
\* and wage is uploaded as a payslip.
C22_FallsBackToSelectedType ==
    [][ ( /\ lastOp'.name = "handleFiles"
          /\ Len(serviceCalls') = Len(serviceCalls) + 1 ) =>
            LET call == serviceCalls'[Len(serviceCalls')]
            IN  call.documentType =
                    IF NameIndicatesPayslip(call.file.name) THEN "payslip"
                    ELSE selectedDocumentType ]_vars


(***************************************************************************)
(* Register page: properties                                               *)
(***************************************************************************)
\* the number of characters of s other than leading and trailing whitespace
TrimmedLength(s) ==
    Cardinality({ i \in 1..Len(s) :
        /\ \E j \in 1..i : s[j] \notin Whitespace
        /\ \E j \in i..Len(s) : s[j] \notin Whitespace })

Occurrences(s, c) == Cardinality({ i \in 1..Len(s) : s[i] = c })

\* local@domain with one '@', no whitespace, a non-empty local part and a
\* dot inside the domain
WellFormedEmail(s) ==
    /\ Occurrences(s, "@") = 1
    /\ \A i \in 1..Len(s) : s[i] \notin Whitespace
    /\ s[1] # "@"
    /\ \E i \in 1..Len(s) : \E j \in (i + 2)..(Len(s) - 1) : s[i] = "@" /\ s[j] = "."

StrongPassword(s) ==
    /\ Len(s) >= 8
    /\ \E i \in 1..Len(s) : \E j \in DOMAIN LowerCase : s[i] = LowerCase[j]
    /\ \E i \in 1..Len(s) : \E j \in DOMAIN UpperCase : s[i] = UpperCase[j]
    /\ \E i \in 1..Len(s) : s[i] \in Digits
    /\ \E i \in 1..Len(s) : s[i] \in {"@", "$", "!", "%", "*", "?", "&"}

WholeFormValid ==
    /\ TrimmedLength(registerFormData.firstName) >= 2
    /\ TrimmedLength(registerFormData.lastName) >= 2
    /\ WellFormedEmail(registerFormData.email)
    /\ StrongPassword(registerFormData.password)
    /\ registerFormData.confirmPassword = registerFormData.password
    /\ acceptTerms

ErrorMessageSet ==
    \/ registerError # ""
    \/ \E field \in FieldNames : fieldErrors[field] # ""

\* C23: the registration request is sent only when the whole form is valid
\* (first and last name of at least 2 characters after trimming, a
\* well-formed email, a password of at least 8 characters with a lowercase
\* letter, an uppercase letter, a digit and one of @$!%*?&, a confirmation
\* equal to the password, the terms accepted); when a condition fails, a
\* submit calls register() not at all and sets an error message.
C23_RegisterOnlyWhenValid ==
    [][ /\ Len(registerCalls') > Len(registerCalls) => WholeFormValid
        /\ (lastOp'.name = "handleSubmit" /\ ~WholeFormValid) =>
               /\ registerCalls' = registerCalls
               /\ ErrorMessageSet' ]_vars

\* a valid form, typed with a blank before the first name, was submitted and
\* register() is in flight with the trimmed name
C23_Witness ==
    /\ lastOp.name = "handleSubmit"
    /\ lastOp.ok
    /\ Len(registerCalls) = 1
    /\ registerCalls[1].firstName = <<"J", "o">>
    /\ registerCalls[1].password = GoodPassword
    /\ isLoading

====
